---- MODULE Spec2Model ----
(***************************************************************************)
(* The rules engine and the turn machine of schach (src/src/game.rs):      *)
(* GameState (board, curr_player, game_over), its move generation and      *)
(* check detection, and turn_manager, the per-frame system that drives a   *)
(* turn, together with the parts of the ECS world turn_manager reads and   *)
(* writes (piece entities and their BoardPosition, the ValidMove and       *)
(* Captured markers, the PieceMoveEvent consumed by move_pieces).          *)
(***************************************************************************)
EXTENDS Integers, Sequences, FiniteSets, TLC

\* ------------------------------------------------------------- bounds
\* apply_movement calls on game_state in one run: a tick that would make more
\* is not taken.
MaxMoves == 2
\* Longest queue of ClickSquareEvents one tick reads.
MaxEvents == 2

\* ------------------------------------------------------------- values
BOARD_SIZE == 8

White == "White"
Black == "Black"

\* Option<Piece>::None, Option<Entity>::None, Option<BoardPosition>::None,
\* Option<GameOver>::None
NoPiece == [color |-> "None", kind |-> "None", has_moved |-> FALSE]
NoEntity == 0
NoPos == <<>>
NoGameOver == <<>>

Stalemate == <<"Stalemate">>
Checkmate(winner) == <<"Checkmate", winner>>

\* Piece { color, kind }; has_moved is the payload of PieceKind::Pawn(bool)
\* and FALSE for every other kind.
Piece(color, kind) == [color |-> color, kind |-> kind, has_moved |-> FALSE]
Pawn(color, has_moved) == [color |-> color, kind |-> "Pawn", has_moved |-> has_moved]

is_some(p) == p.kind # "None"

\* The outcome of a call that may panic: "ok", or the panic's message.
Ok == "ok"
PanicFromOutOfBounds == "Moved from out of bounds position"
PanicToOutOfBounds == "Moved to out of bounds position"
PanicNoPiece == "Moving a non-existent piece"
PanicNoKing == "Couldn't find king"
PanicNotOnBoard == "Entity for piece exists but it's not on the board"
PanicUnwrapNone == "unwrap on a None value"
PanicNoComponent == "unwrap on an Err value"

\* ------------------------------------------------------ BoardPosition
is_in_bounds(pos) ==
    /\ pos[1] >= 0 /\ pos[1] < BOARD_SIZE
    /\ pos[2] >= 0 /\ pos[2] < BOARD_SIZE

\* impl Add<(i8, i8)> for BoardPosition
PosAdd(pos, offset) == <<pos[1] + offset[1], pos[2] + offset[2]>>

\* BoardPosition::new(): the first square of the scan
PosNew == <<0, 0>>

\* BoardPosition::next(): the following square in row-major order, None
\* after the last one
PosNext(pos) ==
    IF pos[2] + 1 < BOARD_SIZE THEN <<pos[1], pos[2] + 1>>
    ELSE IF pos[1] + 1 < BOARD_SIZE THEN <<pos[1] + 1, 0>>
    ELSE NoPos

\* PieceColor::next(): the other colour
ColorNext(color) == IF color = White THEN Black ELSE White

Squares == (0 .. BOARD_SIZE - 1) \X (0 .. BOARD_SIZE - 1)

\* ---------------------------------------------------------- GameState
\* gs is a GameState: [board, curr_player, game_over]; board[row+1][col+1].
get_pos(gs, pos) ==
    IF is_in_bounds(pos) THEN gs.board[pos[1] + 1][pos[2] + 1] ELSE NoPiece

\* set_pos that returns what it stored instead of what it replaced
set_pos_echo(gs, pos, piece) ==
    IF is_in_bounds(pos)
    THEN [gs  |-> [gs EXCEPT !.board[pos[1] + 1][pos[2] + 1] = piece],
          ret |-> piece]
    ELSE [gs |-> gs, ret |-> NoPiece]

\* set_pos: the state after the call (gs) and the value returned (ret)
set_pos(gs, pos, piece) ==
    IF is_in_bounds(pos)
    THEN [gs  |-> [gs EXCEPT !.board[pos[1] + 1][pos[2] + 1] = piece],
          ret |-> gs.board[pos[1] + 1][pos[2] + 1]]
    ELSE [gs |-> gs, ret |-> NoPiece]

\* The squares PieceIter visits: from BoardPosition::new(), by next()
RECURSIVE ScanFrom(_)
ScanFrom(curr_pos) ==
    IF curr_pos = NoPos THEN <<>> ELSE <<curr_pos>> \o ScanFrom(PosNext(curr_pos))

ScanOrder == ScanFrom(PosNew)

\* An iteration that scans column by column
PieceIterByColumn(gs) ==
    SelectSeq([i \in 1 .. Len(ScanOrder) |->
                  [piece |-> get_pos(gs, <<ScanOrder[i][2], ScanOrder[i][1]>>),
                   pos |-> <<ScanOrder[i][2], ScanOrder[i][1]>>]],
              LAMBDA item : is_some(item.piece))

\* PieceIter::next, run to its end: the occupied squares in scan order
PieceIter(gs) ==
    SelectSeq([i \in 1 .. Len(ScanOrder) |->
                  [piece |-> get_pos(gs, ScanOrder[i]), pos |-> ScanOrder[i]]],
              LAMBDA item : is_some(item.piece))

iter_pieces(gs) == PieceIter(gs)

advance_turn(gs) ==
    [gs EXCEPT !.curr_player = IF @ = White THEN Black ELSE White]

\* apply_movement: the state after the call, the value returned, and the
\* assertion that failed, if one did (the state is then as it was).
\* apply_movement without its three assertions
apply_movement_unchecked(gs, from_pos, to_pos) ==
    LET moving_piece == get_pos(gs, from_pos)
        p == IF moving_piece.kind = "Pawn" /\ ~moving_piece.has_moved
             THEN [moving_piece EXCEPT !.has_moved = TRUE]
             ELSE moving_piece
        taken_piece == get_pos(gs, to_pos)
        s1 == set_pos(gs, from_pos, NoPiece).gs
        s2 == set_pos(s1, to_pos, p).gs
    IN  [gs |-> s2, ret |-> taken_piece, failure |-> Ok]

\* apply_movement that writes the target without clearing the source
apply_movement_copy(gs, from_pos, to_pos) ==
    IF ~is_in_bounds(from_pos)
    THEN [gs |-> gs, ret |-> NoPiece, failure |-> PanicFromOutOfBounds]
    ELSE IF ~is_in_bounds(to_pos)
    THEN [gs |-> gs, ret |-> NoPiece, failure |-> PanicToOutOfBounds]
    ELSE LET moving_piece == get_pos(gs, from_pos) IN
         IF ~is_some(moving_piece)
         THEN [gs |-> gs, ret |-> NoPiece, failure |-> PanicNoPiece]
         ELSE LET p == IF moving_piece.kind = "Pawn" /\ ~moving_piece.has_moved
                       THEN [moving_piece EXCEPT !.has_moved = TRUE]
                       ELSE moving_piece
                  taken_piece == get_pos(gs, to_pos)
                  s2 == set_pos(gs, to_pos, p).gs
              IN  [gs |-> s2, ret |-> taken_piece, failure |-> Ok]

\* apply_movement that forgets what stood on the target square
apply_movement_drop_taken(gs, from_pos, to_pos) ==
    IF ~is_in_bounds(from_pos)
    THEN [gs |-> gs, ret |-> NoPiece, failure |-> PanicFromOutOfBounds]
    ELSE IF ~is_in_bounds(to_pos)
    THEN [gs |-> gs, ret |-> NoPiece, failure |-> PanicToOutOfBounds]
    ELSE LET moving_piece == get_pos(gs, from_pos) IN
         IF ~is_some(moving_piece)
         THEN [gs |-> gs, ret |-> NoPiece, failure |-> PanicNoPiece]
         ELSE LET p == IF moving_piece.kind = "Pawn" /\ ~moving_piece.has_moved
                       THEN [moving_piece EXCEPT !.has_moved = TRUE]
                       ELSE moving_piece
                  s1 == set_pos(gs, from_pos, NoPiece).gs
                  s2 == set_pos(s1, to_pos, p).gs
              IN  [gs |-> s2, ret |-> NoPiece, failure |-> Ok]

apply_movement(gs, from_pos, to_pos) ==
    IF ~is_in_bounds(from_pos)
    THEN [gs |-> gs, ret |-> NoPiece, failure |-> PanicFromOutOfBounds]
    ELSE IF ~is_in_bounds(to_pos)
    THEN [gs |-> gs, ret |-> NoPiece, failure |-> PanicToOutOfBounds]
    ELSE LET moving_piece == get_pos(gs, from_pos) IN
         IF ~is_some(moving_piece)
         THEN [gs |-> gs, ret |-> NoPiece, failure |-> PanicNoPiece]
         ELSE LET p == IF moving_piece.kind = "Pawn" /\ ~moving_piece.has_moved
                       THEN [moving_piece EXCEPT !.has_moved = TRUE]
                       ELSE moving_piece
                  taken_piece == get_pos(gs, to_pos)
                  s1 == set_pos(gs, from_pos, NoPiece).gs
                  s2 == set_pos(s1, to_pos, p).gs
              IN  [gs |-> s2, ret |-> taken_piece, failure |-> Ok]

\* ------------------------------------------------------ move generation
NoMoves == [moves |-> <<>>, captures |-> <<>>]

\* is_move_or_capture for which a piece of the own colour does not block
is_move_or_capture_any(gs, piece, pos) ==
    IF ~is_in_bounds(pos) THEN "None"
    ELSE IF is_some(get_pos(gs, pos)) THEN "Capture"
    ELSE "Move"

is_move_or_capture(gs, piece, pos) ==
    IF ~is_in_bounds(pos) THEN "None"
    ELSE LET p == get_pos(gs, pos) IN
         IF is_some(p)
         THEN IF p.color = piece.color THEN "None" ELSE "Capture"
         ELSE "Move"

\* save_moves_captures: mc is the pair of vectors, returned extended
save_moves_captures(gs, piece, pos, mc) ==
    LET r == is_move_or_capture(gs, piece, pos) IN
    IF r = "Move" THEN [mc EXCEPT !.moves = Append(@, pos)]
    ELSE IF r = "Capture" THEN [mc EXCEPT !.captures = Append(@, pos)]
    ELSE mc

\* The loop of check_line, with new_pos at cur and the vectors at mc
RECURSIVE check_line_loop(_, _, _, _, _)
check_line_loop(gs, piece, cur, direction, mc) ==
    LET new_pos == PosAdd(cur, direction)
        r == is_move_or_capture(gs, piece, new_pos)
    IN  IF r = "Move"
        THEN check_line_loop(gs, piece, new_pos, direction,
                             [mc EXCEPT !.moves = Append(@, new_pos)])
        ELSE IF r = "Capture" THEN [mc EXCEPT !.captures = Append(@, new_pos)]
        ELSE mc

\* check_line whose loop goes on after a capture
RECURSIVE check_line_through_loop(_, _, _, _, _)
check_line_through_loop(gs, piece, cur, direction, mc) ==
    LET new_pos == PosAdd(cur, direction)
        r == is_move_or_capture(gs, piece, new_pos)
    IN  IF r = "Move"
        THEN check_line_through_loop(gs, piece, new_pos, direction,
                                     [mc EXCEPT !.moves = Append(@, new_pos)])
        ELSE IF r = "Capture"
        THEN check_line_through_loop(gs, piece, new_pos, direction,
                                     [mc EXCEPT !.captures = Append(@, new_pos)])
        ELSE mc

check_line_through(gs, piece, from_pos, direction) ==
    check_line_through_loop(gs, piece, from_pos, direction, NoMoves)

check_line(gs, piece, from_pos, direction) ==
    check_line_loop(gs, piece, from_pos, direction, NoMoves)

KingOffsets ==
    << <<-1, -1>>, <<-1, 0>>, <<-1, 1>>, <<0, -1>>, <<0, 1>>, <<1, -1>>, <<1, 0>>, <<1, 1>> >>
QueenDirections ==
    << <<-1, 0>>, <<1, 0>>, <<0, 1>>, <<0, -1>>, <<-1, -1>>, <<-1, 1>>, <<1, -1>>, <<1, 1>> >>
RookDirections == << <<-1, 0>>, <<1, 0>>, <<0, 1>>, <<0, -1>> >>
BishopDirections == << <<-1, -1>>, <<-1, 1>>, <<1, -1>>, <<1, 1>> >>
KnightDiags == << <<-1, -1>>, <<-1, 1>>, <<1, -1>>, <<1, 1>> >>
PawnCaptureCols == <<-1, 1>>

\* The king's loop taking every probed square on the board as a move
RECURSIVE king_loop_any(_, _, _, _, _)
king_loop_any(gs, piece, piece_pos, i, mc) ==
    IF i > Len(KingOffsets) THEN mc
    ELSE king_loop_any(gs, piece, piece_pos, i + 1,
                       IF is_in_bounds(PosAdd(piece_pos, KingOffsets[i]))
                       THEN [mc EXCEPT !.moves = Append(@, PosAdd(piece_pos, KingOffsets[i]))]
                       ELSE mc)

\* for offset in offsets { save_moves_captures(piece_pos + offset) }
RECURSIVE king_loop(_, _, _, _, _)
king_loop(gs, piece, piece_pos, i, mc) ==
    IF i > Len(KingOffsets) THEN mc
    ELSE king_loop(gs, piece, piece_pos, i + 1,
                   save_moves_captures(gs, piece, PosAdd(piece_pos, KingOffsets[i]), mc))

\* moves.extend(m); captures.extend(c)
extend(mc, l) == [moves |-> mc.moves \o l.moves, captures |-> mc.captures \o l.captures]

\* for dir in directions { check_line(piece, piece_pos, dir) ... }
RECURSIVE lines_loop(_, _, _, _, _, _)
lines_loop(gs, piece, piece_pos, directions, i, mc) ==
    IF i > Len(directions) THEN mc
    ELSE lines_loop(gs, piece, piece_pos, directions, i + 1,
                    extend(mc, check_line(gs, piece, piece_pos, directions[i])))

\* The knight's loop probing only the first destination of each diagonal
RECURSIVE knight_loop_half(_, _, _, _, _)
knight_loop_half(gs, piece, piece_pos, i, mc) ==
    IF i > Len(KnightDiags) THEN mc
    ELSE LET diag == KnightDiags[i]
             diag_pos == PosAdd(piece_pos, diag)
             mc1 == save_moves_captures(gs, piece, PosAdd(diag_pos, <<diag[1], 0>>), mc)
         IN  knight_loop_half(gs, piece, piece_pos, i + 1, mc1)

RECURSIVE knight_loop(_, _, _, _, _)
knight_loop(gs, piece, piece_pos, i, mc) ==
    IF i > Len(KnightDiags) THEN mc
    ELSE LET diag == KnightDiags[i]
             diag_pos == PosAdd(piece_pos, diag)
             mc1 == save_moves_captures(gs, piece, PosAdd(diag_pos, <<diag[1], 0>>), mc)
             mc2 == save_moves_captures(gs, piece, PosAdd(diag_pos, <<0, diag[2]>>), mc1)
         IN  knight_loop(gs, piece, piece_pos, i + 1, mc2)

\* The pawn's capture loop without the test of the target's colour
RECURSIVE pawn_captures_any(_, _, _, _, _, _)
pawn_captures_any(gs, piece, piece_pos, next_row, i, mc) ==
    IF i > Len(PawnCaptureCols) THEN mc
    ELSE LET new_pos == PosAdd(piece_pos, <<next_row, PawnCaptureCols[i]>>)
             target == get_pos(gs, new_pos)
             mc1 == IF is_in_bounds(new_pos) /\ is_some(target)
                    THEN [mc EXCEPT !.captures = Append(@, new_pos)]
                    ELSE mc
         IN  pawn_captures_any(gs, piece, piece_pos, next_row, i + 1, mc1)

RECURSIVE pawn_captures_loop(_, _, _, _, _, _)
pawn_captures_loop(gs, piece, piece_pos, next_row, i, mc) ==
    IF i > Len(PawnCaptureCols) THEN mc
    ELSE LET new_pos == PosAdd(piece_pos, <<next_row, PawnCaptureCols[i]>>)
             target == get_pos(gs, new_pos)
             mc1 == IF is_in_bounds(new_pos) /\ is_some(target) /\ target.color # piece.color
                    THEN [mc EXCEPT !.captures = Append(@, new_pos)]
                    ELSE mc
         IN  pawn_captures_loop(gs, piece, piece_pos, next_row, i + 1, mc1)

\* pawn_moves that offers the 2-move whether or not the pawn has moved
pawn_moves_any_time(gs, piece, piece_pos) ==
    LET next_row == IF piece.color = White THEN 1 ELSE -1
        one == PosAdd(piece_pos, <<next_row, 0>>)
        two == PosAdd(piece_pos, <<next_row * 2, 0>>)
        mc1 == IF is_in_bounds(one) /\ ~is_some(get_pos(gs, one))
               THEN [NoMoves EXCEPT !.moves = Append(@, one)]
               ELSE NoMoves
        mc2 == IF is_in_bounds(two) /\ ~is_some(get_pos(gs, two))
               THEN [mc1 EXCEPT !.moves = Append(@, two)]
               ELSE mc1
    IN  pawn_captures_loop(gs, piece, piece_pos, next_row, 1, mc2)

pawn_moves(gs, piece, piece_pos) ==
    LET next_row == IF piece.color = White THEN 1 ELSE -1
        one == PosAdd(piece_pos, <<next_row, 0>>)
        two == PosAdd(piece_pos, <<next_row * 2, 0>>)
        mc1 == IF is_in_bounds(one) /\ ~is_some(get_pos(gs, one))
               THEN [NoMoves EXCEPT !.moves = Append(@, one)]
               ELSE NoMoves
        mc2 == IF ~piece.has_moved /\ is_in_bounds(two) /\ ~is_some(get_pos(gs, two))
               THEN [mc1 EXCEPT !.moves = Append(@, two)]
               ELSE mc1
    IN  pawn_captures_loop(gs, piece, piece_pos, next_row, 1, mc2)

pseudo_moves_and_captures(gs, piece, piece_pos) ==
    CASE piece.kind = "King"   -> king_loop(gs, piece, piece_pos, 1, NoMoves)
      [] piece.kind = "Queen"  -> lines_loop(gs, piece, piece_pos, QueenDirections, 1, NoMoves)
      [] piece.kind = "Rook"   -> lines_loop(gs, piece, piece_pos, RookDirections, 1, NoMoves)
      [] piece.kind = "Bishop" -> lines_loop(gs, piece, piece_pos, BishopDirections, 1, NoMoves)
      [] piece.kind = "Knight" -> knight_loop(gs, piece, piece_pos, 1, NoMoves)
      [] piece.kind = "Pawn"   -> pawn_moves(gs, piece, piece_pos)

SeqContains(s, x) == \E i \in 1 .. Len(s) : s[i] = x

\* ------------------------------------------------------------- check
\* find_map(|(piece, pos)| if piece == king { Some(pos) } else { None }) over
\* items: the first hit's square, NoPos where there is none
first_king(items, king) ==
    IF \A i \in 1 .. Len(items) : items[i].piece # king THEN NoPos
    ELSE items[CHOOSE i \in 1 .. Len(items) :
                  /\ items[i].piece = king
                  /\ \A j \in 1 .. i - 1 : items[j].piece # king].pos

\* get_king_pos: the king's square, or NoPos where the expect fails
get_king_pos(gs, player) == first_king(iter_pieces(gs), Piece(player, "King"))

\* any_captures looking for the king's square among the moves
any_moves(gs, player, king_pos, items) ==
    \E i \in 1 .. Len(items) :
        /\ items[i].piece.color # player
        /\ SeqContains(pseudo_moves_and_captures(gs, items[i].piece, items[i].pos).moves,
                       king_pos)

\* filter(|(piece, _)| piece.color != player).any(|(piece, pos)| ...)
any_captures(gs, player, king_pos, items) ==
    \E i \in 1 .. Len(items) :
        /\ items[i].piece.color # player
        /\ SeqContains(pseudo_moves_and_captures(gs, items[i].piece, items[i].pos).captures,
                       king_pos)

\* is_in_check once get_king_pos has returned king_pos
is_in_check_at(gs, player, king_pos) ==
    IF king_pos = NoPos THEN [val |-> FALSE, failure |-> PanicNoKing]
    ELSE [val |-> any_captures(gs, player, king_pos, iter_pieces(gs)), failure |-> Ok]

\* is_in_check: val, or failure when get_king_pos panics
is_in_check(gs, player) == is_in_check_at(gs, player, get_king_pos(gs, player))

\* The closure without its negation: a candidate is kept when it leaves the
\* mover in check
in_check(chk) == [val |-> chk.val, failure |-> chk.failure]

\* !new_state.is_in_check(piece.color), chk being is_in_check's outcome
not_in_check(chk) == [val |-> ~chk.val, failure |-> chk.failure]

\* The closure of the two retain calls once apply_movement has returned
\* moved: advance_turn, then whether the mover is out of check
retain_moved(moved, piece) ==
    IF moved.failure # Ok THEN [val |-> FALSE, failure |-> moved.failure]
    ELSE not_in_check(is_in_check(advance_turn(moved.gs), piece.color))

\* The closure of the two retain calls: whether the candidate is kept, or
\* the panic raised while simulating it.
retain_candidate(gs, piece, piece_pos, pos) ==
    retain_moved(apply_movement(gs, piece_pos, pos), piece)

\* Vec::retain over cands from index i on: the kept ones, or the first panic
RECURSIVE retain_loop(_, _, _, _, _, _)
retain_step(gs, piece, piece_pos, cands, i, kept, r) ==
    IF r.failure # Ok THEN [val |-> kept, failure |-> r.failure]
    ELSE retain_loop(gs, piece, piece_pos, cands, i + 1,
                     IF r.val THEN Append(kept, cands[i]) ELSE kept)

retain_loop(gs, piece, piece_pos, cands, i, kept) ==
    IF i > Len(cands) THEN [val |-> kept, failure |-> Ok]
    ELSE retain_step(gs, piece, piece_pos, cands, i, kept,
                     retain_candidate(gs, piece, piece_pos, cands[i]))

\* (moves, captures) of the retained vectors m and c, or the first panic
retained(m, c) ==
    IF m.failure # Ok THEN [moves |-> <<>>, captures |-> <<>>, failure |-> m.failure]
    ELSE IF c.failure # Ok THEN [moves |-> <<>>, captures |-> <<>>, failure |-> c.failure]
    ELSE [moves |-> m.val, captures |-> c.val, failure |-> Ok]

\* moves_and_captures once pseudo_moves_and_captures has returned pseudo
retain_both(gs, piece, piece_pos, pseudo) ==
    retained(retain_loop(gs, piece, piece_pos, pseudo.moves, 1, <<>>),
             retain_loop(gs, piece, piece_pos, pseudo.captures, 1, <<>>))

moves_and_captures(gs, piece, piece_pos) ==
    retain_both(gs, piece, piece_pos, pseudo_moves_and_captures(gs, piece, piece_pos))

\* Iterator::all over the current player's pieces, from index i on
RECURSIVE no_legal_moves_loop(_, _, _)
no_legal_moves_step(gs, items, i, mc) ==
    IF mc.failure # Ok THEN [val |-> FALSE, failure |-> mc.failure]
    ELSE IF mc.moves = <<>> /\ mc.captures = <<>> THEN no_legal_moves_loop(gs, items, i + 1)
    ELSE [val |-> FALSE, failure |-> Ok]

no_legal_moves_loop(gs, items, i) ==
    IF i > Len(items) THEN [val |-> TRUE, failure |-> Ok]
    ELSE IF items[i].piece.color # gs.curr_player THEN no_legal_moves_loop(gs, items, i + 1)
    ELSE no_legal_moves_step(gs, items, i,
                             moves_and_captures(gs, items[i].piece, items[i].pos))

no_legal_moves(gs) == no_legal_moves_loop(gs, iter_pieces(gs), 1)

\* ----------------------------------------------------- starting position
BackRank(color) ==
    << Piece(color, "Rook"), Piece(color, "Knight"), Piece(color, "Bishop"),
       Piece(color, "Queen"), Piece(color, "King"), Piece(color, "Bishop"),
       Piece(color, "Knight"), Piece(color, "Rook") >>
PawnRank(color) == [c \in 1 .. BOARD_SIZE |-> Pawn(color, FALSE)]
EmptyRank == [c \in 1 .. BOARD_SIZE |-> NoPiece]

STARTING_BOARD ==
    << BackRank(White), PawnRank(White), EmptyRank, EmptyRank,
       EmptyRank, EmptyRank, PawnRank(Black), BackRank(Black) >>

\* Entities of the pieces, in the order create_pieces spawns them.
Entities == 1 .. 32

\* ------------------------------------------------------------ the world
\* game_state   the GameState resource: [board, curr_player, game_over]
\* turn_data    the TurnData resource: [state, move_piece, move_target]
\* piece_pos    the BoardPosition component of each piece entity, NoPos once
\*              the entity is despawned (or was never part of the position)
\* captured     the entities carrying the Captured marker
\* valid_moves  the squares whose entity carries the ValidMove marker
\* failure      Ok, or the message of the panic that ended the program
\* last_call    the apply_movement call of the last tick (NoCall if none):
\*              its arguments, the GameState it was called on, and the
\*              TurnData.move_piece and that entity's BoardPosition then
\* applied      apply_movement calls on game_state since the last advance_turn
\* nmoves       apply_movement calls on game_state so far
VARIABLES game_state, turn_data, piece_pos, captured, valid_moves, failure,
          calls, applied, nmoves
vars == <<game_state, turn_data, piece_pos, captured, valid_moves, failure,
          calls, applied, nmoves>>

\* TurnData::reset
TurnData_reset(td) ==
    [td EXCEPT !.state = "CheckForGameOver", !.move_piece = NoEntity, !.move_target = NoPos]

\* The piece entities a Query<(Entity, &BoardPosition), With<Piece>> visits
Live(pp) == {e \in Entities : pp[e] # NoPos}

\* The entity search of SelectPiece (for ... break) and of SelectTarget
\* (find_map), over the BoardPosition components pp as they were when the
\* system started and the GameState gs as it is now. The query's iteration
\* order is not specified: each entity it may visit first that ends the
\* search is an outcome. An entity on an empty cell fails the expect; an
\* entity on pos whose cell holds a piece of curr_player is the match; with
\* neither, the search ends without a match.
find_friendly(pp, gs, pos) ==
    LET stale == {e \in Live(pp) : ~is_some(get_pos(gs, pp[e]))}
        match == {e \in Live(pp) : pp[e] = pos /\ get_pos(gs, pp[e]).color = gs.curr_player}
    IN  (IF stale # {} THEN {[failure |-> PanicNotOnBoard, entity |-> NoEntity]} ELSE {})
        \cup {[failure |-> Ok, entity |-> e] : e \in match}
        \cup (IF stale = {} /\ match = {} THEN {[failure |-> Ok, entity |-> NoEntity]} ELSE {})

\* What a run of turn_manager has done so far: the resources as mutated, the
\* panic if one was raised, the commands queued (ValidMove inserts and
\* removals, Captured inserts, despawns), the PieceMoveEvents sent, the
\* apply_movement calls made on game_state (each with its arguments, the
\* GameState and the move_piece it was made with) and how many returned.
Run(gs, td) ==
    [gs |-> gs, td |-> td, failure |-> Ok, insert_valid |-> {}, remove_valid |-> FALSE,
     insert_captured |-> {}, despawn |-> {}, sent |-> <<>>, calls |-> <<>>, applied |-> 0]

Panic(run, msg) == [run EXCEPT !.failure = msg]

\* --------------------------------------------------- turn_manager's arms
\* TurnState::CheckForGameOver, chk being is_in_check(curr_player)'s outcome
GameOverKind(run, chk) ==
    IF chk.failure # Ok THEN Panic(run, chk.failure)
    ELSE IF chk.val
    THEN [run EXCEPT !.gs.game_over = Checkmate(ColorNext(run.gs.curr_player))]
    ELSE [run EXCEPT !.gs.game_over = Stalemate]

\* TurnState::CheckForGameOver, nlm being no_legal_moves()'s outcome
GameOverCheck(run, nlm) ==
    IF nlm.failure # Ok THEN Panic(run, nlm.failure)
    ELSE IF nlm.val THEN GameOverKind(run, is_in_check(run.gs, run.gs.curr_player))
    ELSE [run EXCEPT !.td.state = "SelectPiece"]

\* TurnState::CheckForGameOver
CheckForGameOver(gs, td) == GameOverCheck(Run(gs, td), no_legal_moves(gs))

\* SelectPiece's event handling without the test of the button
SelectPieceEventAnyButton(pp, run, ev) ==
    IF run.failure # Ok THEN {run}
    ELSE IF ev.board_pos = NoPos THEN {[run EXCEPT !.td.move_piece = NoEntity]}
    ELSE {IF f.failure # Ok THEN Panic(run, f.failure)
          ELSE IF f.entity # NoEntity
          THEN [run EXCEPT !.td.move_piece = f.entity, !.td.state = "ShowHighlights"]
          ELSE run
          : f \in find_friendly(pp, run.gs, ev.board_pos)}

\* TurnState::SelectPiece, one event of the loop: the runs it may lead to
SelectPieceEvent(pp, run, ev) ==
    IF run.failure # Ok THEN {run}
    ELSE IF ev.kind # "Left" THEN {run}
    ELSE IF ev.board_pos = NoPos THEN {[run EXCEPT !.td.move_piece = NoEntity]}
    ELSE {IF f.failure # Ok THEN Panic(run, f.failure)
          ELSE IF f.entity # NoEntity
          THEN [run EXCEPT !.td.move_piece = f.entity, !.td.state = "ShowHighlights"]
          ELSE run
          : f \in find_friendly(pp, run.gs, ev.board_pos)}

\* TurnState::ShowHighlights, mc being moves_and_captures' outcome
Highlight(run, mc) ==
    IF mc.failure # Ok THEN Panic(run, mc.failure)
    ELSE [run EXCEPT
            !.insert_valid = {sq \in Squares : SeqContains(mc.moves, sq)
                                               \/ SeqContains(mc.captures, sq)},
            !.td.state = "SelectTarget"]

\* ShowHighlights whose simulation advances the turn of the live game state
\* instead of the clone's
ShowHighlightsInPlace(pp, gs, td) ==
    IF td.move_piece = NoEntity THEN Panic(Run(gs, td), PanicUnwrapNone)
    ELSE IF pp[td.move_piece] = NoPos THEN Panic(Run(gs, td), PanicNoComponent)
    ELSE IF ~is_some(get_pos(gs, pp[td.move_piece])) THEN Panic(Run(gs, td), PanicNotOnBoard)
    ELSE Highlight(Run(advance_turn(gs), td),
                   moves_and_captures(gs, get_pos(gs, pp[td.move_piece]), pp[td.move_piece]))

\* TurnState::ShowHighlights
ShowHighlights(pp, gs, td) ==
    IF td.move_piece = NoEntity THEN Panic(Run(gs, td), PanicUnwrapNone)
    ELSE IF pp[td.move_piece] = NoPos THEN Panic(Run(gs, td), PanicNoComponent)
    ELSE IF ~is_some(get_pos(gs, pp[td.move_piece])) THEN Panic(Run(gs, td), PanicNotOnBoard)
    ELSE Highlight(Run(gs, td),
                   moves_and_captures(gs, get_pos(gs, pp[td.move_piece]), pp[td.move_piece]))

\* The "Valid selection, move this piece" branch of SelectTarget
CommitMove(pp, run, target_pos) ==
    LET r1 == [run EXCEPT !.td.move_target = target_pos, !.td.state = "AnimateMove"]
        piece_ent == r1.td.move_piece
    IN  IF piece_ent = NoEntity THEN Panic(r1, PanicUnwrapNone)
        ELSE IF pp[piece_ent] = NoPos THEN Panic(r1, PanicNoComponent)
        ELSE LET source == pp[piece_ent]
                 moved == apply_movement(r1.gs, source, target_pos)
                 call == [from_pos |-> source, to_pos |-> target_pos,
                          gs |-> r1.gs, move_piece |-> piece_ent]
             IN  IF moved.failure # Ok
                 THEN [r1 EXCEPT !.failure = moved.failure, !.calls = Append(@, call)]
                 ELSE [r1 EXCEPT
                         !.gs = moved.gs,
                         !.calls = Append(@, call),
                         !.applied = @ + 1,
                         !.insert_captured =
                             IF is_some(moved.ret)
                             THEN @ \cup {e \in Live(pp) : pp[e] = target_pos}
                             ELSE @,
                         !.sent = Append(@, [entity |-> piece_ent, target |-> target_pos])]

\* SelectTarget's event handling without the removal of the highlights
SelectTargetEventKeep(pp, valid, run, ev) ==
    IF run.failure # Ok THEN {run}
    ELSE IF ev.kind # "Left" THEN {run}
    ELSE LET abandon == [run EXCEPT !.td.move_piece = NoEntity, !.td.state = "SelectPiece"]
         IN  IF ev.board_pos = NoPos THEN {abandon}
             ELSE {IF f.failure # Ok THEN Panic(run, f.failure)
                   ELSE IF f.entity # NoEntity
                   THEN [run EXCEPT !.td.move_piece = f.entity,
                                    !.td.state = "ShowHighlights"]
                   ELSE IF ev.board_pos \in valid
                   THEN CommitMove(pp, run, ev.board_pos)
                   ELSE abandon
                   : f \in find_friendly(pp, run.gs, ev.board_pos)}

\* TurnState::SelectTarget, one event of the loop: the runs it may lead to.
\* valid is the set of squares carrying ValidMove when the system started.
SelectTargetEvent(pp, valid, run, ev) ==
    IF run.failure # Ok THEN {run}
    ELSE IF ev.kind # "Left" THEN {run}
    ELSE LET cleared(r) == IF r.failure # Ok THEN r ELSE [r EXCEPT !.remove_valid = TRUE]
             abandon == [run EXCEPT !.td.move_piece = NoEntity, !.td.state = "SelectPiece"]
         IN  IF ev.board_pos = NoPos THEN {cleared(abandon)}
             ELSE {cleared(IF f.failure # Ok THEN Panic(run, f.failure)
                           ELSE IF f.entity # NoEntity
                           THEN [run EXCEPT !.td.move_piece = f.entity,
                                            !.td.state = "ShowHighlights"]
                           ELSE IF ev.board_pos \in valid
                           THEN CommitMove(pp, run, ev.board_pos)
                           ELSE abandon)
                   : f \in find_friendly(pp, run.gs, ev.board_pos)}

\* for ev in click_square_events.iter(): the events of the queue in order
RECURSIVE SelectPieceLoop(_, _, _, _)
SelectPieceLoop(pp, runs, events, i) ==
    IF i > Len(events) THEN runs
    ELSE SelectPieceLoop(pp, UNION {SelectPieceEvent(pp, r, events[i]) : r \in runs},
                         events, i + 1)

RECURSIVE SelectTargetLoop(_, _, _, _, _)
SelectTargetLoop(pp, valid, runs, events, i) ==
    IF i > Len(events) THEN runs
    ELSE SelectTargetLoop(pp, valid,
                          UNION {SelectTargetEvent(pp, valid, r, events[i]) : r \in runs},
                          events, i + 1)

SelectPiece(pp, gs, td, events) == SelectPieceLoop(pp, {Run(gs, td)}, events, 1)

SelectTarget(pp, valid, gs, td, events) ==
    SelectTargetLoop(pp, valid, {Run(gs, td)}, events, 1)

\* AnimateMove without the comparison with move_piece: any completed
\* animation ends the wait
AnimateMoveAny(gs, td, anims) ==
    IF anims = {} THEN Run(gs, td)
    ELSE IF td.move_piece = NoEntity THEN Panic(Run(gs, td), PanicUnwrapNone)
    ELSE [Run(gs, td) EXCEPT !.td.state = "CheckCapture"]

\* TurnState::AnimateMove; anims are the entities of the
\* PieceAnimCompleteEvents read (the loop's outcome does not depend on
\* their order)
AnimateMove(gs, td, anims) ==
    LET run == Run(gs, td) IN
    IF anims = {} THEN run
    ELSE IF td.move_piece = NoEntity THEN Panic(run, PanicUnwrapNone)
    ELSE IF td.move_piece \in anims THEN [run EXCEPT !.td.state = "CheckCapture"]
    ELSE run

\* CheckCapture that hands the board back to the same player
CheckCaptureAgain(gs, td, capt) ==
    [Run(gs, td) EXCEPT !.despawn = capt, !.td.state = "SelectPiece"]

\* TurnState::CheckCapture; capt are the entities the captured_query visits
CheckCapture(gs, td, capt) ==
    [Run(gs, td) EXCEPT !.despawn = capt, !.td.state = "EndTurn"]

\* EndTurn that changes the state but keeps the selection
EndTurnKeep(gs, td) == Run(advance_turn(gs), [td EXCEPT !.state = "CheckForGameOver"])

\* TurnState::EndTurn
EndTurn(gs, td) == Run(advance_turn(gs), TurnData_reset(td))

\* ------------------------------------------------------- the other systems
\* move_pieces: every PieceMoveEvent sets the BoardPosition of its entity
RECURSIVE move_pieces(_, _, _)
move_pieces(pp, events, i) ==
    IF i > Len(events) THEN pp
    ELSE move_pieces(IF pp[events[i].entity] # NoPos
                     THEN [pp EXCEPT ![events[i].entity] = events[i].target]
                     ELSE pp,
                     events, i + 1)

\* ------------------------------------------------------------- inputs
Buttons == {"Left", "Right", "Middle"}

\* The squares the pointer is over when a button is pressed: the e file
\* (NoPos: the background plane, or nothing pickable).
ClickCols == {4}
ClickPositions == {sq \in Squares : sq[2] \in ClickCols} \cup {NoPos}

ClickSquareEvents == [kind : Buttons, board_pos : ClickPositions]

RECURSIVE SeqsUpTo(_, _)
SeqsUpTo(S, n) ==
    IF n = 0 THEN {<<>>}
    ELSE LET shorter == SeqsUpTo(S, n - 1) IN
         shorter \cup {Append(q, x) : q \in {s \in shorter : Len(s) = n - 1}, x \in S}

EventQueues == SeqsUpTo(ClickSquareEvents, MaxEvents)

\* The entities whose animation completed: one frame's events, hence at
\* most as many as a queue holds
RECURSIVE SubsetsUpTo(_, _)
SubsetsUpTo(S, n) ==
    IF n = 0 THEN {{}}
    ELSE LET smaller == SubsetsUpTo(S, n - 1) IN
         smaller \cup {A \cup {x} : A \in smaller, x \in S}

AnimSets(pp) == SubsetsUpTo(Live(pp), MaxEvents)

\* ------------------------------------------------------------ positions
\* The piece each entity stands for (pieces.rs STARTING_BOARD order: White's
\* back rank, White's pawns, Black's pawns, Black's back rank), and its
\* starting square.
StartPos(e) ==
    IF e <= 8 THEN <<0, e - 1>>
    ELSE IF e <= 16 THEN <<1, e - 9>>
    ELSE IF e <= 24 THEN <<6, e - 17>>
    ELSE <<7, e - 25>>

\* The board that mirrors a placement pp of the entities: each entity's
\* piece is its starting piece, a pawn off its starting square having moved.
BoardOf(pp) ==
    [r \in 1 .. BOARD_SIZE |-> [c \in 1 .. BOARD_SIZE |->
        LET here == {e \in Entities : pp[e] = <<r - 1, c - 1>>} IN
        IF here = {} THEN NoPiece
        ELSE LET e == CHOOSE x \in here : TRUE
                 p == STARTING_BOARD[StartPos(e)[1] + 1][StartPos(e)[2] + 1]
             IN  IF p.kind = "Pawn" THEN [p EXCEPT !.has_moved = pp[e] # StartPos(e)] ELSE p]]

Placement(f) == [e \in Entities |-> IF e \in DOMAIN f THEN f[e] ELSE NoPos]

\* The positions a game is taken up from, each at the start of a turn with
\* White to move.
\* Start: the position setup() and create_pieces build.
\* RookMate: K g1, R e1 against K g8, P f7 g7 h7 (Re8 mates).
\* KingStalemate: K e5, P e7 against K e8 (Ke6 stalemates).
\* FacingRooks: K e1, R e2 against K e8, R e7.
\* BlockedPawn: K e1, P e2 (not yet moved), N e3 against K e8.
\* LoneMove: K a1, P e5 against K c2, P b3, P e7 (e5-e6 is White's only move).
\* RookBehindPawn: K h1, R e1, P e3 against K h8.
Start == [pp |-> [e \in Entities |-> StartPos(e)], curr_player |-> White]
RookMate ==
    [pp |-> Placement((5 :> <<0, 6>>) @@ (1 :> <<0, 4>>) @@ (29 :> <<7, 6>>)
                      @@ (22 :> <<6, 5>>) @@ (23 :> <<6, 6>>) @@ (24 :> <<6, 7>>)),
     curr_player |-> White]
KingStalemate ==
    [pp |-> Placement((5 :> <<4, 4>>) @@ (13 :> <<6, 4>>) @@ (29 :> <<7, 4>>)),
     curr_player |-> White]
FacingRooks ==
    [pp |-> Placement((5 :> <<0, 4>>) @@ (1 :> <<1, 4>>) @@ (29 :> <<7, 4>>) @@ (25 :> <<6, 4>>)),
     curr_player |-> White]
BlockedPawn ==
    [pp |-> Placement((5 :> <<0, 4>>) @@ (13 :> <<1, 4>>) @@ (7 :> <<2, 4>>) @@ (29 :> <<7, 4>>)),
     curr_player |-> White]
LoneMove ==
    [pp |-> Placement((5 :> <<0, 0>>) @@ (13 :> <<4, 4>>) @@ (29 :> <<1, 2>>)
                      @@ (18 :> <<2, 1>>) @@ (21 :> <<6, 4>>)),
     curr_player |-> White]
RookBehindPawn ==
    [pp |-> Placement((5 :> <<0, 7>>) @@ (1 :> <<0, 4>>) @@ (13 :> <<2, 4>>) @@ (29 :> <<7, 7>>)),
     curr_player |-> White]

Positions ==
    {Start, RookMate, KingStalemate, FacingRooks, BlockedPawn, LoneMove, RookBehindPawn}

\* ------------------------------------------------------- specification
Init ==
    \E p \in Positions :
        /\ game_state = [board |-> BoardOf(p.pp), curr_player |-> p.curr_player,
                         game_over |-> NoGameOver]
        /\ turn_data = [state |-> "CheckForGameOver", move_piece |-> NoEntity,
                        move_target |-> NoPos]
        /\ piece_pos = p.pp
        /\ captured = {}
        /\ valid_moves = {}
        /\ failure = Ok
        /\ calls = <<>>
        /\ applied = 0
        /\ nmoves = 0

\* The end of a frame in which turn_manager ran as run: the resources as it
\* left them; if it panicked the program ends there, otherwise its commands
\* are applied and move_pieces reads the events it sent.
Finish(run) ==
    /\ game_state' = run.gs
    /\ turn_data' = run.td
    /\ failure' = run.failure
    /\ calls' = run.calls
    /\ applied' = IF run.td.state = "CheckForGameOver" /\ turn_data.state = "EndTurn"
                  THEN 0 ELSE applied + run.applied
    /\ nmoves' = nmoves + run.applied
    /\ IF run.failure # Ok
       THEN UNCHANGED <<piece_pos, captured, valid_moves>>
       ELSE /\ piece_pos' = [e \in Entities |->
                               IF e \in run.despawn THEN NoPos
                               ELSE move_pieces(piece_pos, run.sent, 1)[e]]
            /\ captured' = (captured \cup (run.insert_captured \cap Live(piece_pos)))
                             \ run.despawn
            /\ valid_moves' = (IF run.remove_valid THEN {} ELSE valid_moves)
                                \cup run.insert_valid

Running == failure = Ok

\* The guard written with Option::take: it returns, and leaves game_over None
TickGameOverTake ==
    /\ Running
    /\ game_state.game_over # NoGameOver
    /\ game_state' = [game_state EXCEPT !.game_over = NoGameOver]
    /\ UNCHANGED <<turn_data, piece_pos, captured, valid_moves, failure, calls, applied,
                   nmoves>>

\* if game_state.game_over.is_some() { return; }
TickGameOver ==
    /\ Running
    /\ game_state.game_over # NoGameOver
    /\ UNCHANGED vars

TickCheckForGameOver ==
    /\ Running
    /\ game_state.game_over = NoGameOver
    /\ turn_data.state = "CheckForGameOver"
    /\ Finish(CheckForGameOver(game_state, turn_data))

TickSelectPiece ==
    /\ Running
    /\ game_state.game_over = NoGameOver
    /\ turn_data.state = "SelectPiece"
    /\ \E events \in EventQueues :
         \E run \in SelectPiece(piece_pos, game_state, turn_data, events) : Finish(run)

TickShowHighlights ==
    /\ Running
    /\ game_state.game_over = NoGameOver
    /\ turn_data.state = "ShowHighlights"
    /\ Finish(ShowHighlights(piece_pos, game_state, turn_data))

TickSelectTarget ==
    /\ Running
    /\ game_state.game_over = NoGameOver
    /\ turn_data.state = "SelectTarget"
    /\ \E events \in EventQueues :
         \E run \in SelectTarget(piece_pos, valid_moves, game_state, turn_data, events) :
             nmoves + run.applied <= MaxMoves /\ Finish(run)

TickAnimateMove ==
    /\ Running
    /\ game_state.game_over = NoGameOver
    /\ turn_data.state = "AnimateMove"
    /\ \E anims \in AnimSets(piece_pos) : Finish(AnimateMove(game_state, turn_data, anims))

TickCheckCapture ==
    /\ Running
    /\ game_state.game_over = NoGameOver
    /\ turn_data.state = "CheckCapture"
    /\ Finish(CheckCapture(game_state, turn_data, captured))

TickEndTurn ==
    /\ Running
    /\ game_state.game_over = NoGameOver
    /\ turn_data.state = "EndTurn"
    /\ Finish(EndTurn(game_state, turn_data))

Next ==
    \/ TickGameOver
    \/ TickCheckForGameOver
    \/ TickSelectPiece
    \/ TickShowHighlights
    \/ TickSelectTarget
    \/ TickAnimateMove
    \/ TickCheckCapture
    \/ TickEndTurn

Spec == Init /\ [][Next]_vars

\* Ticks keep occurring: turn_manager is run every frame, so the arms that
\* follow the end of an animation and read no input (CheckCapture, EndTurn)
\* eventually take their step.  The arms that wait for a selection or for
\* the end of an animation are left to their senders.
LiveSpec ==
    /\ Init /\ [][Next]_vars
    /\ WF_vars(TickCheckCapture)
    /\ WF_vars(TickEndTurn)

\* ----------------------------------------------------------- properties
\* Whether target is among the moves or captures moves_and_captures returns
\* for the piece on source in gs
IsLegal(gs, source, target) ==
    /\ is_some(get_pos(gs, source))
    /\ moves_and_captures(gs, get_pos(gs, source), source).failure = Ok
    /\ \/ SeqContains(moves_and_captures(gs, get_pos(gs, source), source).moves, target)
       \/ SeqContains(moves_and_captures(gs, get_pos(gs, source), source).captures, target)

\* C1: whenever the turn machine calls apply_movement(source, target), in
\* the GameState just before the call source holds a piece (the remembered
\* move_piece's) of curr_player's colour and target is one of the moves or
\* captures moves_and_captures returns for that piece at source.
C1_CallsAreLegal ==
    \A i \in 1 .. Len(calls) :
        /\ is_some(get_pos(calls[i].gs, calls[i].from_pos))
        /\ get_pos(calls[i].gs, calls[i].from_pos).color = calls[i].gs.curr_player
        /\ IsLegal(calls[i].gs, calls[i].from_pos, calls[i].to_pos)

\* C2: apply_movement and advance_turn on game_state strictly alternate,
\* starting with apply_movement: never two apply_movement calls without an
\* advance_turn between them, and EndTurn (which calls advance_turn) is
\* entered with exactly one apply_movement since the last advance_turn.
C2_Alternate ==
    /\ applied <= 1
    /\ turn_data.state = "EndTurn" => applied = 1

\* The squares of the board holding player's king
Kings(gs, player) == {sq \in Squares : get_pos(gs, sq) = Piece(player, "King")}

\* C3: the board always holds exactly one White king and exactly one Black
\* king, and get_king_pos never fails.
C3_BothKings ==
    /\ Cardinality(Kings(game_state, White)) = 1
    /\ Cardinality(Kings(game_state, Black)) = 1
    /\ failure # PanicNoKing

\* The candidates of cands after which piece.color is not in check, in order:
\* clone, apply_movement(pos, candidate), advance_turn, is_in_check
OutOfCheck(gs, piece, pos, cands) ==
    SelectSeq(cands, LAMBDA t :
        ~is_in_check(advance_turn(apply_movement(gs, pos, t).gs), piece.color).val)

\* Whether mc, the outcome of moves_and_captures, is pseudo, the outcome of
\* pseudo_moves_and_captures, with each vector filtered by OutOfCheck
IsFiltered(gs, piece, pos, mc, pseudo) ==
    /\ mc.failure = Ok
    /\ mc.moves = OutOfCheck(gs, piece, pos, pseudo.moves)
    /\ mc.captures = OutOfCheck(gs, piece, pos, pseudo.captures)

\* C4: for the piece on every square of the board, moves_and_captures
\* returns exactly the candidates of pseudo_moves_and_captures (moves and
\* captures filtered separately, order kept) for which is_in_check(piece.color)
\* is false after apply_movement(pos, candidate) and advance_turn on a clone.
C4_LegalityFilter ==
    \A sq \in Squares :
        (is_some(get_pos(game_state, sq))
         /\ Kings(game_state, get_pos(game_state, sq).color) # {})
        => IsFiltered(game_state, get_pos(game_state, sq), sq,
                      moves_and_captures(game_state, get_pos(game_state, sq), sq),
                      pseudo_moves_and_captures(game_state, get_pos(game_state, sq), sq))

\* Whether some candidates of pseudo were kept in mc and some dropped, and
\* the highlighted squares are those of mc
SomeDropped(mc, pseudo) ==
    /\ mc.failure = Ok
    /\ mc.moves # <<>>
    /\ mc.moves # pseudo.moves
    /\ valid_moves = {sq \in Squares : SeqContains(mc.moves, sq) \/ SeqContains(mc.captures, sq)}

\* ShowHighlights has highlighted the legal moves of a remembered piece that
\* also has candidates leaving its own king in check
C4_Witness ==
    /\ failure = Ok
    /\ turn_data.state = "SelectTarget"
    /\ turn_data.move_piece # NoEntity
    /\ piece_pos[turn_data.move_piece] # NoPos
    /\ is_some(get_pos(game_state, piece_pos[turn_data.move_piece]))
    /\ SomeDropped(moves_and_captures(game_state,
                                      get_pos(game_state, piece_pos[turn_data.move_piece]),
                                      piece_pos[turn_data.move_piece]),
                   pseudo_moves_and_captures(game_state,
                                             get_pos(game_state, piece_pos[turn_data.move_piece]),
                                             piece_pos[turn_data.move_piece]))

\* Every piece of curr_player has empty legal move and capture sets
AllEmpty(gs) ==
    \A sq \in Squares :
        get_pos(gs, sq).color = gs.curr_player
        => /\ moves_and_captures(gs, get_pos(gs, sq), sq).moves = <<>>
           /\ moves_and_captures(gs, get_pos(gs, sq), sq).captures = <<>>

\* What a CheckForGameOver tick that ran as run must have done, none being
\* AllEmpty and chk is_in_check(curr_player) before it
Classified(gs, run, none, chk) ==
    /\ run.failure = Ok
    /\ (none /\ chk.val)
        => /\ run.gs.game_over = Checkmate(IF gs.curr_player = White THEN Black ELSE White)
           /\ run.td.state = "CheckForGameOver"
    /\ (none /\ ~chk.val)
        => /\ run.gs.game_over = Stalemate
           /\ run.td.state = "CheckForGameOver"
    /\ ~none
        => /\ run.gs.game_over = NoGameOver
           /\ run.td.state = "SelectPiece"

\* C5: a tick in state CheckForGameOver with game_over unset sets game_over
\* to Checkmate(the colour other than curr_player) if every piece of
\* curr_player has empty legal sets and curr_player is in check, to Stalemate
\* if they are empty and curr_player is not in check, the state staying
\* CheckForGameOver in both cases; otherwise game_over stays unset and the
\* state becomes SelectPiece.
C5_GameOverCheck ==
    (Running /\ turn_data.state = "CheckForGameOver" /\ game_state.game_over = NoGameOver)
    => Classified(game_state, CheckForGameOver(game_state, turn_data),
                  AllEmpty(game_state), is_in_check(game_state, game_state.curr_player))

\* C6: once game_over is set, every tick leaves game_over, board,
\* curr_player, the turn state, move_piece, move_target and the highlighted
\* squares unchanged.
C6_Inert ==
    [][game_state.game_over # NoGameOver
       => /\ game_state' = game_state
          /\ turn_data' = turn_data
          /\ valid_moves' = valid_moves]_vars

\* A game that has ended in checkmate
C6_Witness == game_state.game_over = Checkmate(White) /\ failure = Ok

\* The edges of the turn state between two ticks
Edges ==
    {<<"CheckForGameOver", "SelectPiece">>, <<"SelectPiece", "ShowHighlights">>,
     <<"ShowHighlights", "SelectTarget">>, <<"SelectTarget", "ShowHighlights">>,
     <<"SelectTarget", "AnimateMove">>, <<"SelectTarget", "SelectPiece">>,
     <<"AnimateMove", "CheckCapture">>, <<"CheckCapture", "EndTurn">>,
     <<"EndTurn", "CheckForGameOver">>}

\* C7: the turn state starts as CheckForGameOver, changes from one tick to
\* the next only along Edges, and every tick in ShowHighlights, CheckCapture
\* or EndTurn leaves that state.
C7_Edges ==
    /\ turn_data.state = "CheckForGameOver"
    /\ [][/\ turn_data.state' # turn_data.state
              => <<turn_data.state, turn_data.state'>> \in Edges
          /\ turn_data.state \in {"ShowHighlights", "CheckCapture", "EndTurn"}
              => turn_data.state' # turn_data.state]_vars

\* C8: in state AnimateMove a tick moves the state to CheckCapture if and
\* only if its animation-complete events include move_piece's; on any other
\* tick the state, move_piece, move_target and the GameState stay unchanged.
C8_AnimateMove ==
    (Running /\ turn_data.state = "AnimateMove" /\ game_state.game_over = NoGameOver)
    => \A anims \in AnimSets(piece_pos) :
          AnimateMove(game_state, turn_data, anims)
            = IF turn_data.move_piece \in anims
              THEN [Run(game_state, turn_data) EXCEPT !.td.state = "CheckCapture"]
              ELSE Run(game_state, turn_data)

\* The animation of the moved piece has completed and the tick has seen it
C8_Witness == turn_data.state = "CheckCapture" /\ failure = Ok

\* The selections C9 is about: no position, or a square that is not
\* highlighted and holds no piece of curr_player
Abandoning(pos) ==
    \/ pos = NoPos
    \/ /\ pos # NoPos
       /\ pos \notin valid_moves
       /\ get_pos(game_state, pos).color # game_state.curr_player

\* C9: in state SelectTarget a primary-button selection of an empty square
\* that is not highlighted, of an enemy piece that is not highlighted, or
\* with no position returns the machine to SelectPiece with move_piece
\* cleared and all highlights cleared, raises no failure, and leaves board,
\* curr_player and game_over unchanged.
C9_Abandon ==
    (Running /\ turn_data.state = "SelectTarget" /\ game_state.game_over = NoGameOver)
    => \A pos \in ClickPositions :
          Abandoning(pos)
          => \A r \in SelectTargetEvent(piece_pos, valid_moves, Run(game_state, turn_data),
                                        [kind |-> "Left", board_pos |-> pos]) :
                /\ r.failure = Ok
                /\ r.td.state = "SelectPiece"
                /\ r.td.move_piece = NoEntity
                /\ r.remove_valid /\ r.insert_valid = {}
                /\ r.gs = game_state

\* C10: whenever the turn state is ShowHighlights, SelectTarget or
\* AnimateMove at the start of a tick, move_piece is a live piece of
\* curr_player's colour, and no move_piece unwrap fails.
C10_MovePieceSet ==
    /\ failure \notin {PanicUnwrapNone, PanicNoComponent}
    /\ (Running /\ turn_data.state \in {"ShowHighlights", "SelectTarget", "AnimateMove"})
       => /\ turn_data.move_piece # NoEntity
          /\ piece_pos[turn_data.move_piece] # NoPos
          /\ get_pos(game_state, piece_pos[turn_data.move_piece]).color
               = game_state.curr_player

\* C11: move_target is set only while the turn state is AnimateMove,
\* CheckCapture or EndTurn, and move_piece and move_target are both empty
\* whenever a tick starts in CheckForGameOver or SelectPiece.
C11_MoveTarget ==
    Running
    => /\ turn_data.move_target # NoPos
          => turn_data.state \in {"AnimateMove", "CheckCapture", "EndTurn"}
       /\ turn_data.state \in {"CheckForGameOver", "SelectPiece"}
          => /\ turn_data.move_piece = NoEntity
             /\ turn_data.move_target = NoPos

\* The piece as it stands after a relocation: a pawn has has_moved set.
Relocated(piece) ==
    IF piece.kind = "Pawn" THEN [piece EXCEPT !.has_moved = TRUE] ELSE piece

\* r is the outcome of apply_movement(gs, from_pos, to_pos): it returned
\* normally with the piece that stood on to_pos, to_pos holds the moved piece,
\* and nothing else differs except possibly from_pos.
MovesPiece(gs, from_pos, to_pos, r) ==
    /\ r.failure = Ok
    /\ r.ret = get_pos(gs, to_pos)
    /\ get_pos(r.gs, to_pos) = Relocated(get_pos(gs, from_pos))
    /\ \A row \in 1 .. BOARD_SIZE :
          IF row - 1 \notin {from_pos[1], to_pos[1]}
          THEN r.gs.board[row] = gs.board[row]
          ELSE \A col \in 1 .. BOARD_SIZE :
                   <<row - 1, col - 1>> \notin {from_pos, to_pos}
                   => r.gs.board[row][col] = gs.board[row][col]
    /\ r.gs.curr_player = gs.curr_player
    /\ r.gs.game_over = gs.game_over

Occupied(gs) == {sq \in Squares : is_some(get_pos(gs, sq))}

\* C12 as stated: for every occupied from and every to on the board,
\* apply_movement returns the piece that stood on to, leaves from empty and to
\* holding the moved piece (a pawn with has_moved set), and changes no other
\* cell, nor curr_player, nor game_over.
C12_ApplyMovementAll ==
    \A from_pos \in Occupied(game_state) : \A to_pos \in Squares :
        LET r == apply_movement(game_state, from_pos, to_pos) IN
        /\ MovesPiece(game_state, from_pos, to_pos, r)
        /\ get_pos(r.gs, from_pos) = NoPiece

\* C12 amended: the same, with from left empty only when from and to differ;
\* when they are the same square it keeps the piece.
C12_ApplyMovement ==
    \A from_pos \in Occupied(game_state) : \A to_pos \in Squares :
        LET r == apply_movement(game_state, from_pos, to_pos) IN
        /\ MovesPiece(game_state, from_pos, to_pos, r)
        /\ from_pos # to_pos => get_pos(r.gs, from_pos) = NoPiece

\* A committed capture: apply_movement acted on an occupied target.
C12_Witness ==
    /\ failure = Ok
    /\ \E i \in 1 .. Len(calls) :
          /\ is_some(get_pos(calls[i].gs, calls[i].to_pos))
          /\ calls[i].from_pos # calls[i].to_pos

\* Rows and columns to probe: one step off the board on each side, the two
\* edges and the file the clicks use.
ProbeCoords == {0 - 1, 0, 4, BOARD_SIZE - 1, BOARD_SIZE}
ProbeSquares == ProbeCoords \X ProbeCoords

\* The assertion apply_movement must fail for these arguments, or Ok.
ExpectedPanic(gs, from_pos, to_pos) ==
    IF ~is_in_bounds(from_pos) THEN PanicFromOutOfBounds
    ELSE IF ~is_in_bounds(to_pos) THEN PanicToOutOfBounds
    ELSE IF ~is_some(get_pos(gs, from_pos)) THEN PanicNoPiece
    ELSE Ok

\* C13: apply_movement called with from out of bounds, to out of bounds, or
\* from on an empty square fails its assertion instead of returning, and the
\* game state is as it was before the call.
C13_ApplyMovementPanics ==
    \A from_pos \in Squares \cup ProbeSquares : \A to_pos \in ProbeSquares :
        ExpectedPanic(game_state, from_pos, to_pos) # Ok
        => LET r == apply_movement(game_state, from_pos, to_pos) IN
           /\ r.failure = ExpectedPanic(game_state, from_pos, to_pos)
           /\ r.gs = game_state

\* After a committed move the square it left is empty: repeating the call,
\* or calling with the target pushed off the board, fails.
C13_Witness ==
    /\ failure = Ok
    /\ Len(calls) >= 1
    /\ apply_movement(game_state, calls[1].from_pos, calls[1].to_pos).failure
         = PanicNoPiece
    /\ apply_movement(game_state, calls[1].to_pos, <<BOARD_SIZE, 0>>).failure
         = PanicToOutOfBounds

\* The cells from_pos and to_pos hold after apply_movement(from_pos, to_pos)
\* followed by apply_movement(to_pos, from_pos) what they held before, a
\* pawn's has_moved flag aside.
RoundTrip(gs, from_pos, to_pos) ==
    LET there == apply_movement(gs, from_pos, to_pos) IN
    /\ there.failure = Ok
    /\ LET back == apply_movement(there.gs, to_pos, from_pos) IN
       /\ back.failure = Ok
       /\ get_pos(back.gs, from_pos) = Relocated(get_pos(gs, from_pos))
       /\ get_pos(back.gs, to_pos)
            = IF to_pos = from_pos THEN Relocated(get_pos(gs, to_pos))
                                   ELSE get_pos(gs, to_pos)

\* C14 as stated: for every occupied from and every to on the board, moving
\* from -> to and then to -> from restores what both cells held, except that a
\* moved pawn keeps has_moved set.
C14_RoundTripAll ==
    \A from_pos \in Occupied(game_state) : \A to_pos \in Squares :
        RoundTrip(game_state, from_pos, to_pos)

\* C14 amended: the same for an empty to.  When to is occupied by another
\* piece the round trip leaves to empty: the piece taken is not put back.
C14_RoundTrip ==
    \A from_pos \in Occupied(game_state) : \A to_pos \in Squares :
        LET back == apply_movement(apply_movement(game_state, from_pos, to_pos).gs,
                                   to_pos, from_pos) IN
        IF is_some(get_pos(game_state, to_pos)) /\ to_pos # from_pos
        THEN /\ back.failure = Ok
             /\ get_pos(back.gs, from_pos) = Relocated(get_pos(game_state, from_pos))
             /\ get_pos(back.gs, to_pos) = NoPiece
        ELSE RoundTrip(game_state, from_pos, to_pos)

\* A pawn that made a committed move to an empty square: moving it back
\* restores both cells but not its flag.
C14_Witness ==
    /\ failure = Ok
    /\ \E i \in 1 .. Len(calls) :
          LET c == calls[i]
              piece == get_pos(c.gs, c.from_pos)
              there == apply_movement(c.gs, c.from_pos, c.to_pos)
              back == apply_movement(there.gs, c.to_pos, c.from_pos)
          IN  /\ piece.kind = "Pawn" /\ ~piece.has_moved
              /\ ~is_some(get_pos(c.gs, c.to_pos))
              /\ get_pos(back.gs, c.from_pos) = Pawn(piece.color, TRUE)
              /\ get_pos(back.gs, c.to_pos) = NoPiece

\* The square n rows ahead of a pawn of this colour.
Ahead(piece, pos, n) ==
    PosAdd(pos, <<(IF piece.color = White THEN 1 ELSE 0 - 1) * n, 0>>)

Free(gs, pos) == is_in_bounds(pos) /\ ~is_some(get_pos(gs, pos))

Pawns(gs) == {sq \in Squares : get_pos(gs, sq).kind = "Pawn"}

\* C15: a pawn's two-square advance is among its pseudo-moves exactly when
\* the pawn has not moved and the square one ahead and the square two ahead
\* are both on the board and empty.
C15_TwoSquareAdvance ==
    \A pos \in Pawns(game_state) :
        LET piece == get_pos(game_state, pos) IN
        SeqContains(pseudo_moves_and_captures(game_state, piece, pos).moves,
                    Ahead(piece, pos, 2))
        <=> /\ ~piece.has_moved
            /\ Free(game_state, Ahead(piece, pos, 1))
            /\ Free(game_state, Ahead(piece, pos, 2))

\* pos is in one of the two vectors of mc
Offered(mc, pos) == SeqContains(mc.moves, pos) \/ SeqContains(mc.captures, pos)

MovedPawns(gs) ==
    {sq \in Squares : get_pos(gs, sq).kind = "Pawn" /\ get_pos(gs, sq).has_moved}

\* The game after E2 to E4 from the starting position.
AfterE2E4 ==
    apply_movement([board |-> STARTING_BOARD, curr_player |-> White,
                    game_over |-> NoGameOver], <<1, 4>>, <<3, 4>>).gs

\* Every pawn apply_movement relocates has has_moved set, and a pawn with
\* has_moved set is offered no square two rows ahead, by
\* pseudo_moves_and_captures or by moves_and_captures; after E2 to E4 the
\* pawn on row 3, col 4 has the advance to row 4, col 4 and nothing else.
MovedPawnRules ==
    /\ \A from_pos \in Pawns(game_state) : \A to_pos \in Squares :
          get_pos(apply_movement(game_state, from_pos, to_pos).gs, to_pos)
              = Pawn(get_pos(game_state, from_pos).color, TRUE)
    /\ \A pos \in MovedPawns(game_state) :
          LET piece == get_pos(game_state, pos) IN
          /\ ~Offered(pseudo_moves_and_captures(game_state, piece, pos),
                      Ahead(piece, pos, 2))
          /\ ~Offered(moves_and_captures(game_state, piece, pos),
                      Ahead(piece, pos, 2))
    /\ game_state.board = AfterE2E4.board
       => LET mc == moves_and_captures(game_state, Pawn(White, TRUE), <<3, 4>>) IN
          mc.moves = << <<4, 4>> >> /\ mc.captures = <<>>

\* No step of the game puts a pawn with has_moved unset on a square that did
\* not hold that same pawn before the step.
FlagStays ==
    \A sq \in Squares :
        LET after == get_pos(game_state', sq) IN
        (after.kind = "Pawn" /\ ~after.has_moved) => get_pos(game_state, sq) = after

\* C16: once apply_movement has relocated a pawn its has_moved is true and no
\* later operation clears it; a pawn with has_moved true is never offered a
\* square two rows ahead, as after E2 to E4 from the starting position.
C16_HasMoved == [](MovedPawnRules) /\ [][FlagStays]_vars

\* The starting position after E2 to E4 has been committed.
C16_Witness ==
    /\ failure = Ok
    /\ game_state.board = AfterE2E4.board
    /\ get_pos(game_state, <<3, 4>>) = Pawn(White, TRUE)
    /\ Len(calls) = 1

\* Some piece of the other colour has king_pos among its pseudo-captures.
Attacked(gs, player, king_pos) ==
    \E sq \in Occupied(gs) :
        /\ get_pos(gs, sq).color = ColorNext(player)
        /\ SeqContains(pseudo_moves_and_captures(gs, get_pos(gs, sq), sq).captures,
                       king_pos)

\* A lone White king on row 0, col 4 and a Black queen on row 0, col 0.
QueenOnRank ==
    [board |-> [r \in 1 .. BOARD_SIZE |-> [c \in 1 .. BOARD_SIZE |->
                   IF <<r - 1, c - 1>> = <<0, 4>> THEN Piece(White, "King")
                   ELSE IF <<r - 1, c - 1>> = <<0, 0>> THEN Piece(Black, "Queen")
                   ELSE NoPiece]],
     curr_player |-> White, game_over |-> NoGameOver]

\* C17: for a colour whose king is on the board, is_in_check is true exactly
\* when some piece of the other colour has the king's square among its
\* pseudo-captures; with a lone White king on row 0, col 4 and a Black queen
\* on row 0, col 0 it is true for White.
C17_IsInCheck ==
    /\ \A player \in {White, Black} : \A king_pos \in Kings(game_state, player) :
          LET chk == is_in_check(game_state, player) IN
          /\ chk.failure = Ok
          /\ chk.val <=> Attacked(game_state, player, king_pos)
    /\ is_in_check(QueenOnRank, White) = [val |-> TRUE, failure |-> Ok]

\* The player to move is in check.
C17_Witness ==
    /\ failure = Ok
    /\ Kings(game_state, game_state.curr_player) # {}
    /\ is_in_check(game_state, game_state.curr_player).val
    /\ turn_data.state = "SelectPiece"

\* What the two queries of CheckForGameOver return on gs.
Queries(gs) ==
    [check |-> [player \in {White, Black} |-> is_in_check(gs, player)],
     no_legal_moves |-> no_legal_moves(gs)]

\* A tick of CheckForGameOver (no_legal_moves, is_in_check) or of
\* ShowHighlights (moves_and_captures, and through it
\* pseudo_moves_and_captures and is_in_check on a clone) leaves the board and
\* the player to move as they were, and the queries asked again after it
\* return what they returned before it.
QueriesOnly ==
    turn_data.state \in {"CheckForGameOver", "ShowHighlights"}
    => /\ game_state'.board = game_state.board
       /\ game_state'.curr_player = game_state.curr_player
       /\ turn_data.state = "ShowHighlights" => game_state' = game_state
       /\ Queries(game_state') = Queries(game_state)

HandleByState(pp, valid, run, ev) ==
    IF run.failure # Ok THEN {run}
    ELSE IF run.td.state = "SelectPiece" THEN SelectPieceEvent(pp, run, ev)
    ELSE IF run.td.state = "SelectTarget" THEN SelectTargetEvent(pp, valid, run, ev)
    ELSE {run}

RECURSIVE ByStateLoop(_, _, _, _, _)
ByStateLoop(pp, valid, runs, events, i) ==
    IF i > Len(events) THEN runs
    ELSE ByStateLoop(pp, valid,
                     UNION {HandleByState(pp, valid, r, events[i]) : r \in runs},
                     events, i + 1)

\* What turn_manager does with a queue in the current state.
Pass(events) ==
    IF turn_data.state = "SelectPiece"
    THEN SelectPiece(piece_pos, game_state, turn_data, events)
    ELSE SelectTarget(piece_pos, valid_moves, game_state, turn_data, events)

\* The queues for which handling by state leaves no room for interpretation:
\* no event is met in ShowHighlights, whose rules take no event but change the
\* state.  What remains are events met in SelectPiece, SelectTarget and, after
\* a committed move, AnimateMove.
Plain(events) ==
    \A i \in 1 .. Len(events) - 1 :
        \A r \in ByStateLoop(piece_pos, valid_moves, {Run(game_state, turn_data)},
                              SubSeq(events, 1, i), 1) :
            r.td.state # "ShowHighlights"

\* C19: the selection events of one pass are applied in arrival order, each
\* by the rules of the state reached after the previous event, so that the
\* pass ends as if the events had been handled one after another under their
\* respective states.
C19_ByState ==
    (Running /\ game_state.game_over = NoGameOver
             /\ turn_data.state \in {"SelectPiece", "SelectTarget"})
    => \A events \in EventQueues :
           Plain(events)
           => Pass(events) = ByStateLoop(piece_pos, valid_moves,
                                         {Run(game_state, turn_data)}, events, 1)

\* The squares on which an entity stands, and those with two or more.
Stands(pp) == {pp[e] : e \in Live(pp)}
Crowded(pp) == {sq \in Stands(pp) : \E e1, e2 \in Live(pp) : e1 # e2 /\ pp[e1] = sq /\ pp[e2] = sq}

\* The entities marked Captured are at most one, an entity other than the
\* moving piece's.
OnlyTheTaken ==
    captured # {} => Cardinality(captured) = 1 /\ turn_data.move_piece \notin captured

\* C20: whenever a tick starts in CheckForGameOver, SelectPiece,
\* ShowHighlights or SelectTarget the piece entities stand on pairwise
\* distinct squares, which are exactly the occupied cells of the board, and
\* the expectation that an entity's square holds a piece never fails; the
\* entity marked at a capture is the one that stood on the target, never the
\* moving piece's.
C20_Mirror ==
    /\ failure # PanicNotOnBoard
    /\ (Running /\ turn_data.state \in {"CheckForGameOver", "SelectPiece",
                                          "ShowHighlights", "SelectTarget"})
       => /\ Crowded(piece_pos) = {}
          /\ Stands(piece_pos) = Occupied(game_state)
    /\ Running => OnlyTheTaken

\* The piece entity e was spawned for (pieces.rs create_pieces).
EntityPiece(e) == STARTING_BOARD[StartPos(e)[1] + 1][StartPos(e)[2] + 1]

\* Entity e is the entity of the piece standing on pos in gs.
IsPieceOn(pp, gs, e, pos) ==
    /\ e \in Live(pp)
    /\ pp[e] = pos
    /\ get_pos(gs, pos).color = EntityPiece(e).color
    /\ get_pos(gs, pos).kind = EntityPiece(e).kind

LeftClick(pos) == [kind |-> "Left", board_pos |-> pos]

\* run is the outcome of one primary selection of pos in state SelectPiece.
SelectPieceRule(pos, run) ==
    /\ run.failure = Ok
    /\ run.gs = game_state
    /\ IF pos = NoPos
       THEN run.td.move_piece = NoEntity
       ELSE IF get_pos(game_state, pos).color = game_state.curr_player
       THEN /\ IsPieceOn(piece_pos, game_state, run.td.move_piece, pos)
            /\ run.td.state = "ShowHighlights"
       ELSE /\ run.td.state = turn_data.state
            /\ run.td.move_piece = turn_data.move_piece

\* C21: in state SelectPiece a primary selection of a square holding a piece
\* of the player to move sets move_piece to that piece and the state to
\* ShowHighlights; of an empty square or an enemy piece changes neither; with
\* no position clears move_piece; and none changes the GameState.
C21_SelectPiece ==
    (Running /\ game_state.game_over = NoGameOver /\ turn_data.state = "SelectPiece")
    => \A pos \in Squares \cup {NoPos} :
           \A run \in SelectPiece(piece_pos, game_state, turn_data, <<LeftClick(pos)>>) :
               SelectPieceRule(pos, run)

\* The squares moves_and_captures returns for the piece on pos.
Candidates(gs, pos) ==
    LET mc == moves_and_captures(gs, get_pos(gs, pos), pos) IN
    {sq \in Squares : Offered(mc, sq)}

\* After a tick of ShowHighlights the run has not failed, the squares
\* highlighted are the candidates of the remembered piece, the GameState is
\* unchanged and the state is SelectTarget.
HighlightsShown ==
    /\ failure' = Ok
    /\ valid_moves' = Candidates(game_state, piece_pos[turn_data.move_piece])
    /\ game_state' = game_state
    /\ turn_data'.state = "SelectTarget"

\* C22: a tick in state ShowHighlights highlights exactly the squares
\* moves_and_captures returns for the remembered piece at its position,
\* changes no GameState field and sets the state to SelectTarget, also when
\* there are no such squares.
C22_ShowHighlights == [][turn_data.state = "ShowHighlights" => HighlightsShown]_vars

\* run is the outcome of one primary selection, in state SelectTarget, of
\* pos holding a piece of the player to move: that piece is remembered, every
\* highlight is removed and none is added, the state is ShowHighlights and
\* the GameState is as it was.
ReselectRule(pos, run) ==
    /\ run.failure = Ok
    /\ IsPieceOn(piece_pos, game_state, run.td.move_piece, pos)
    /\ run.td.state = "ShowHighlights"
    /\ run.remove_valid /\ run.insert_valid = {}
    /\ run.gs = game_state

Friendly(gs) == {sq \in Occupied(gs) : get_pos(gs, sq).color = gs.curr_player}

\* C23: in state SelectTarget a primary selection of a square holding a
\* piece of the player to move replaces move_piece by that piece, clears the
\* highlights, sets the state to ShowHighlights and leaves the board
\* unchanged, so that the highlights shown next are those of the new piece
\* only.
C23_Reselect ==
    (Running /\ game_state.game_over = NoGameOver /\ turn_data.state = "SelectTarget")
    => \A pos \in Friendly(game_state) :
           \A run \in SelectTarget(piece_pos, valid_moves, game_state, turn_data,
                                    <<LeftClick(pos)>>) :
               ReselectRule(pos, run)

\* A tick of EndTurn: the selection is cleared, the state is
\* CheckForGameOver, the player to move is the other one, and the board and
\* game_over are as they were.
EndTurnRule ==
    /\ failure' = Ok
    /\ turn_data' = [state |-> "CheckForGameOver", move_piece |-> NoEntity,
                     move_target |-> NoPos]
    /\ game_state'.curr_player # game_state.curr_player
    /\ game_state'.curr_player \in {White, Black}
    /\ game_state'.board = game_state.board
    /\ game_state'.game_over = game_state.game_over

\* A tick of CheckCapture: the GameState is as it was and the state is EndTurn.
CheckCaptureRule ==
    /\ failure' = Ok
    /\ game_state' = game_state
    /\ turn_data'.state = "EndTurn"

\* C24: a tick in state EndTurn clears move_piece and move_target, sets the
\* state to CheckForGameOver, flips curr_player and changes no board cell and
\* not game_over; a tick in CheckCapture changes no GameState field and sets
\* the state to EndTurn.
C24_EndTurn ==
    [][/\ turn_data.state = "EndTurn" => EndTurnRule
       /\ turn_data.state = "CheckCapture" => CheckCaptureRule]_vars

\* White's rook has taken the rook on e7, the taken piece's entity is gone
\* and the turn has passed to Black.
C24_Witness ==
    /\ failure = Ok
    /\ turn_data = [state |-> "CheckForGameOver", move_piece |-> NoEntity,
                    move_target |-> NoPos]
    /\ game_state.curr_player = Black
    /\ piece_pos[1] = <<6, 4>>
    /\ piece_pos[25] = NoPos
    /\ captured = {}

\* pos is on the board and holds a piece of the other colour than piece.
Enemy(gs, piece, pos) ==
    is_in_bounds(pos) /\ is_some(get_pos(gs, pos)) /\ get_pos(gs, pos).color # piece.color

\* The pseudo-moves and pseudo-captures of a pawn, as sets.
PawnRule(gs, piece, pos, mc) ==
    LET dir == IF piece.color = White THEN 1 ELSE 0 - 1
        one == PosAdd(pos, <<dir, 0>>)
        returned == {mc.moves[i] : i \in 1 .. Len(mc.moves)}
                    \cup {mc.captures[i] : i \in 1 .. Len(mc.captures)}
    IN  /\ SeqContains(mc.moves, one) <=> Free(gs, one)
        /\ \A col \in {0 - 1, 1} :
              LET diag == PosAdd(pos, <<dir, col>>) IN
              /\ SeqContains(mc.captures, diag) <=> Enemy(gs, piece, diag)
              /\ ~SeqContains(mc.moves, diag)
        /\ \A sq \in returned : (sq[1] - pos[1]) * dir > 0

\* C25: for a pawn of either colour on any square, moved or not, the square
\* one row ahead is a pseudo-move exactly when it is on the board and empty;
\* each forward-diagonal square is a pseudo-capture exactly when it is on the
\* board and holds an enemy piece, and is never a pseudo-move; no square
\* beside or behind the pawn is returned.
C25_Pawn ==
    \A pos \in Squares : \A color \in {White, Black} : \A has_moved \in BOOLEAN :
        PawnRule(game_state, Pawn(color, has_moved), pos,
                 pseudo_moves_and_captures(game_state, Pawn(color, has_moved), pos))

\* A pawn on the board has both a square to advance to and a piece to take.
C25_Witness ==
    /\ failure = Ok
    /\ \E pos \in Pawns(game_state) :
          LET mc == pseudo_moves_and_captures(game_state, get_pos(game_state, pos), pos) IN
          mc.moves # <<>> /\ mc.captures # <<>>

\* The sets of unit directions.
Directions == ((0 - 1 .. 1) \X (0 - 1 .. 1)) \ {<<0, 0>>}
Orthogonal == {d \in Directions : d[1] = 0 \/ d[2] = 0}
Diagonal == Directions \ Orthogonal
DirectionsOf(kind) ==
    IF kind = "Rook" THEN Orthogonal
    ELSE IF kind = "Bishop" THEN Diagonal
    ELSE Directions

\* The square k steps from pos in direction d.
Step(pos, d, k) == <<pos[1] + k * d[1], pos[2] + k * d[2]>>

\* The number of steps from pos in direction d to the first square that is
\* occupied or off the board.
Reach(gs, pos, d) ==
    CHOOSE k \in 1 .. BOARD_SIZE :
        /\ ~Free(gs, Step(pos, d, k))
        /\ \A j \in 1 .. k - 1 : Free(gs, Step(pos, d, j))

SeqSet(l) == {l[i] : i \in 1 .. Len(l)}

\* One direction d of a sliding piece on pos whose first obstacle is k steps
\* away: the free squares before the obstacle, and the obstacle when it is an
\* enemy piece.
LineTo(gs, piece, pos, d, k) ==
    [moves |-> {Step(pos, d, j) : j \in 1 .. k - 1},
     captures |-> IF Enemy(gs, piece, Step(pos, d, k)) THEN {Step(pos, d, k)} ELSE {}]

\* mc holds, for a sliding piece on pos, the free squares of each of its
\* directions up to the first obstacle as moves, and that obstacle as a
\* capture when it is an enemy piece.
LinesAre(mc, lines) ==
    /\ SeqSet(mc.moves) = UNION {l.moves : l \in lines}
    /\ SeqSet(mc.captures) = UNION {l.captures : l \in lines}

LineRule(gs, piece, pos, mc) ==
    LinesAre(mc, {LineTo(gs, piece, pos, d, Reach(gs, pos, d))
                  : d \in DirectionsOf(piece.kind)})

\* The states in which a board is met for the first time: the start of a
\* game, and the state a committed move leaves.  Every board the game reaches
\* is the board of such a state.
NewBoard == calls # <<>> \/ (nmoves = 0 /\ turn_data.state = "CheckForGameOver")

\* C26: for a rook, bishop or queen of either colour on any square of any
\* board the game reaches, along each of its directions the pseudo-moves are
\* the consecutive free squares from the piece to the first occupied square
\* or the edge, and that first occupied square is a pseudo-capture exactly
\* when it holds an enemy piece; nothing beyond it and no friendly-occupied
\* square is returned.
C26_Lines ==
    NewBoard
    => \A pos \in Squares : \A color \in {White, Black} :
           \A kind \in {"Rook", "Bishop", "Queen"} :
               LineRule(game_state, Piece(color, kind), pos,
                        pseudo_moves_and_captures(game_state, Piece(color, kind), pos))

\* The highlights shown are those of a rook that has free squares ahead and
\* an enemy piece at the end of a line.
C26_Witness ==
    /\ failure = Ok
    /\ turn_data.state = "SelectTarget"
    /\ turn_data.move_piece # NoEntity
    /\ LET pos == piece_pos[turn_data.move_piece] IN
       /\ pos # NoPos
       /\ get_pos(game_state, pos).kind = "Rook"
       /\ LET mc == pseudo_moves_and_captures(game_state, get_pos(game_state, pos), pos) IN
          /\ mc.moves # <<>> /\ mc.captures # <<>>
          /\ SeqSet(mc.moves) \cup SeqSet(mc.captures) = valid_moves

\* The 8 squares a knight on pos jumps to, and the 8 squares next to pos.
KnightSquares(pos) ==
    {<<pos[1] + d[1], pos[2] + d[2]>> :
        d \in {x \in (0 - 2 .. 2) \X (0 - 2 .. 2) : x[1] * x[1] + x[2] * x[2] = 5}}
KingSquares(pos) == {<<pos[1] + d[1], pos[2] + d[2]>> : d \in Directions}

\* mc holds each probed square at most once: those that are free as moves,
\* those holding an enemy piece as captures, and nothing else.
ProbeRule(gs, piece, probed, mc) ==
    /\ SeqSet(mc.moves) = {sq \in probed : Free(gs, sq)}
    /\ SeqSet(mc.captures) = {sq \in probed : Enemy(gs, piece, sq)}
    /\ Len(mc.moves) = Cardinality(SeqSet(mc.moves))
    /\ Len(mc.captures) = Cardinality(SeqSet(mc.captures))

\* C27: for a knight of either colour on any square of any board the game
\* reaches, the squares probed are the 8 squares at offsets (+-2, +-1) and
\* (+-1, +-2), each once; a probed square is a pseudo-move when on the board
\* and empty, a pseudo-capture when on the board and enemy-occupied, and
\* dropped otherwise, whatever stands in between.
C27_Knight ==
    NewBoard
    => \A pos \in Squares : \A color \in {White, Black} :
           /\ Cardinality(KnightSquares(pos)) = 8
           /\ ProbeRule(game_state, Piece(color, "Knight"), KnightSquares(pos),
                        pseudo_moves_and_captures(game_state, Piece(color, "Knight"), pos))

\* A knight on the board, hemmed in by its neighbours, has squares to jump to.
C27_Witness ==
    /\ failure = Ok
    /\ calls # <<>>
    /\ \E pos \in Occupied(game_state) :
          /\ get_pos(game_state, pos).kind = "Knight"
          /\ \A sq \in KingSquares(pos) : ~Free(game_state, sq)
          /\ pseudo_moves_and_captures(game_state, get_pos(game_state, pos), pos).moves # <<>>

\* C28: for a king of either colour on any square of any board the game
\* reaches, each of the 8 squares at unit offsets is a pseudo-move when on the
\* board and empty, a pseudo-capture when on the board and enemy-occupied,
\* and dropped otherwise; no other square is returned.
C28_King ==
    NewBoard
    => \A pos \in Squares : \A color \in {White, Black} :
           ProbeRule(game_state, Piece(color, "King"), KingSquares(pos),
                     pseudo_moves_and_captures(game_state, Piece(color, "King"), pos))

\* The highlights shown are those of a king that has a free square, an enemy
\* piece and a friendly piece next to it.
C28_Witness ==
    /\ failure = Ok
    /\ turn_data.state = "SelectTarget"
    /\ turn_data.move_piece # NoEntity
    /\ LET pos == piece_pos[turn_data.move_piece] IN
       /\ pos # NoPos
       /\ get_pos(game_state, pos).kind = "King"
       /\ \E sq \in KingSquares(pos) : Free(game_state, sq)
       /\ \E sq \in KingSquares(pos) : Enemy(game_state, get_pos(game_state, pos), sq)
       /\ \E sq \in KingSquares(pos) :
             is_in_bounds(sq) /\ ~Free(game_state, sq)
             /\ ~Enemy(game_state, get_pos(game_state, pos), sq)

\* Every square of mc is on the board and is not pos; every move is an empty
\* square and every capture holds a piece of the other colour than piece.
WellFormed(gs, piece, pos, mc) ==
    /\ \A sq \in SeqSet(mc.moves) : sq # pos /\ Free(gs, sq)
    /\ \A sq \in SeqSet(mc.captures) : sq # pos /\ Enemy(gs, piece, sq)
    /\ SeqSet(mc.moves) \cap SeqSet(mc.captures) = {}

\* A piece of each kind and colour, a pawn moved or not.
AnyPiece ==
    {Piece(color, kind) : color \in {White, Black},
                          kind \in {"King", "Queen", "Rook", "Bishop", "Knight"}}
    \cup {Pawn(color, has_moved) : color \in {White, Black}, has_moved \in BOOLEAN}

\* C29: on every board the game reaches, for a piece of any kind on any
\* square every position pseudo_moves_and_captures returns, and for every
\* piece of the board every position moves_and_captures returns, is on the
\* board and is not the piece's own square; every move is an empty square and
\* every capture holds a piece of the opposite colour, so the two lists are
\* disjoint and hold no friendly-occupied square.
C29_WellFormed ==
    NewBoard
    => /\ \A pos \in Squares : \A piece \in AnyPiece :
             WellFormed(game_state, piece, pos,
                        pseudo_moves_and_captures(game_state, piece, pos))
       /\ \A pos \in Occupied(game_state) :
             WellFormed(game_state, get_pos(game_state, pos), pos,
                        moves_and_captures(game_state, get_pos(game_state, pos), pos))

\* The highlights shown for a Black piece hold an empty square and a square
\* with a White piece.
C29_Witness ==
    /\ failure = Ok
    /\ turn_data.state = "SelectTarget"
    /\ game_state.curr_player = Black
    /\ \E sq \in valid_moves : Free(game_state, sq)
    /\ \E sq \in valid_moves : Enemy(game_state, Piece(Black, "King"), sq)

\* C30: whenever a tick starts, no square is highlighted unless the state is
\* SelectTarget, and in SelectTarget the highlighted squares are exactly the
\* squares moves_and_captures returns, in the current GameState, for the
\* piece on the square of move_piece.
C30_Highlights ==
    Running
    => IF turn_data.state = "SelectTarget"
       THEN /\ turn_data.move_piece # NoEntity
            /\ piece_pos[turn_data.move_piece] # NoPos
            /\ valid_moves = Candidates(game_state, piece_pos[turn_data.move_piece])
       ELSE valid_moves = {}

\* After a move by each side, White has selected a piece and its candidates
\* are highlighted.
C30_Witness ==
    /\ failure = Ok
    /\ turn_data.state = "SelectTarget"
    /\ valid_moves # {}
    /\ nmoves = 2 /\ applied = 0
    /\ game_state.curr_player = White

\* C31: whenever a tick starts in CheckForGameOver, the colour that is not
\* to move is not in check: the player who just moved has not left their own
\* king attacked.
C31_MoverNotInCheck ==
    (Running /\ turn_data.state = "CheckForGameOver")
    => LET chk == is_in_check(game_state, ColorNext(game_state.curr_player)) IN
       chk.failure = Ok /\ ~chk.val

Selecting == turn_data.state \in {"SelectPiece", "ShowHighlights", "SelectTarget"}

\* C32: whenever the turn state is SelectPiece, ShowHighlights or
\* SelectTarget, game_over is unset and curr_player has at least one legal
\* move or capture on the current board.
C32_SelectingHasMoves ==
    (Running /\ Selecting)
    => /\ game_state.game_over = NoGameOver
       /\ LET none == no_legal_moves(game_state) IN
          none.failure = Ok /\ ~none.val

PawnRow(color) == IF color = White THEN 1 ELSE BOARD_SIZE - 2

\* C33: on every board reached by committed moves, a pawn has
\* has_moved = FALSE exactly when it stands on its colour's starting row
\* (row 1 for White, row 6 for Black).
C33_PawnFlag ==
    \A pos \in Squares :
        LET piece == get_pos(game_state, pos) IN
        (is_some(piece) /\ piece.kind = "Pawn")
        => (piece.has_moved = FALSE <=> pos[1] = PawnRow(piece.color))

Committed(color) ==
    Running /\ calls # <<>> /\ game_state.curr_player = color

Delivered == Running /\ turn_data.state = "CheckCapture"

NextTurn(color) ==
    /\ Running
    /\ turn_data.state = "CheckForGameOver"
    /\ game_state.curr_player = ColorNext(color)

\* C34: if every committed move is eventually followed by the delivery of
\* the matching animation-complete event on a tick in AnimateMove (the tick
\* that ends in CheckCapture), then every committed move is eventually
\* followed by the state CheckForGameOver with curr_player flipped.
C34_NextTurn ==
    \A color \in {White, Black} :
        [](Committed(color) => <>Delivered)
        => [](Committed(color) => <>NextTurn(color))

C34_Witness ==
    /\ NextTurn(White)
    /\ nmoves = 1
    /\ applied = 0
    /\ game_state.game_over = NoGameOver

\* The same without the delivery: every committed move is eventually
\* followed by the next turn.
C34_NextTurnAlways ==
    \A color \in {White, Black} : [](Committed(color) => <>NextTurn(color))

Without(events, i) == SubSeq(events, 1, i - 1) \o SubSeq(events, i + 1, Len(events))

\* C35: a selection event with a button other than the primary one changes
\* nothing: in the states that read selection events a pass over a queue
\* ends as the pass over the queue without that event does, and a pass over
\* a queue of such events alone leaves the turn state, move_piece,
\* move_target, the highlights and the GameState as they were.
C35_NonPrimary ==
    (Running /\ game_state.game_over = NoGameOver
        /\ turn_data.state \in {"SelectPiece", "SelectTarget"})
    => \A events \in EventQueues :
          /\ \A i \in 1 .. Len(events) :
                events[i].kind # "Left" => Pass(events) = Pass(Without(events, i))
          /\ (\A i \in 1 .. Len(events) : events[i].kind # "Left")
             => Pass(events) = {Run(game_state, turn_data)}

C35_Witness ==
    /\ Running
    /\ turn_data.state = "SelectTarget"
    /\ turn_data.move_piece # NoEntity
    /\ valid_moves # {}
    /\ game_state.curr_player = Black

Rows == 0 .. BOARD_SIZE - 1

OnBoard(pos) == pos[1] \in Rows /\ pos[2] \in Rows

\* What get returns for pos: nothing off the board, the cell's content on it
\* (NoPiece for an empty cell).
GetRule(gs, pos) ==
    IF OnBoard(pos)
    THEN get_pos(gs, pos) = gs.board[pos[1] + 1][pos[2] + 1]
    ELSE get_pos(gs, pos) = NoPiece

\* What set does for pos and piece, r being its outcome
SetRule(gs, pos, piece, r) ==
    IF OnBoard(pos)
    THEN /\ r.ret = gs.board[pos[1] + 1][pos[2] + 1]
         /\ r.gs.board[pos[1] + 1][pos[2] + 1] = piece
         /\ get_pos(r.gs, pos) = piece
         /\ \A row \in 1 .. BOARD_SIZE :
               IF row - 1 # pos[1]
               THEN r.gs.board[row] = gs.board[row]
               ELSE \A col \in 1 .. BOARD_SIZE :
                        col - 1 # pos[2] => r.gs.board[row][col] = gs.board[row][col]
         /\ r.gs.curr_player = gs.curr_player
         /\ r.gs.game_over = gs.game_over
    ELSE r.ret = NoPiece /\ r.gs = gs

\* C36: on every board the game reaches, get returns None for a position off
\* the board and for an empty cell and the stored piece otherwise; set on a
\* position of the board stores the piece (or None), returns the previous
\* occupant and changes no other cell; set off the board returns None and
\* changes nothing.
C36_GetSet ==
    NewBoard
    => \A pos \in Squares \cup ProbeSquares :
          /\ GetRule(game_state, pos)
          /\ \A piece \in AnyPiece \cup {NoPiece} :
                SetRule(game_state, pos, piece, set_pos(game_state, pos, piece))

\* A board after a capture: set replaced a piece on the target square and
\* emptied the square the mover came from
C36_Witness ==
    /\ Running
    /\ Len(calls) = 1
    /\ is_some(get_pos(calls[1].gs, calls[1].to_pos))
    /\ set_pos(calls[1].gs, calls[1].to_pos, NoPiece).ret = get_pos(calls[1].gs, calls[1].to_pos)
    /\ is_some(get_pos(game_state, calls[1].to_pos))
    /\ ~is_some(get_pos(game_state, calls[1].from_pos))

\* Row-major order: an earlier row, or the same row and an earlier column
Before(p, q) == p[1] < q[1] \/ (p[1] = q[1] /\ p[2] < q[2])

Yields(gs, items) ==
    /\ Len(ScanOrder) = BOARD_SIZE * BOARD_SIZE
    /\ Len(items) <= BOARD_SIZE * BOARD_SIZE
    /\ \A i \in 1 .. Len(items) :
          /\ OnBoard(items[i].pos)
          /\ is_some(items[i].piece)
          /\ items[i].piece = gs.board[items[i].pos[1] + 1][items[i].pos[2] + 1]
    /\ \A i \in 1 .. Len(items) - 1 : Before(items[i].pos, items[i + 1].pos)
    /\ \A pos \in Squares :
          is_some(gs.board[pos[1] + 1][pos[2] + 1])
          => \E i \in 1 .. Len(items) : items[i].pos = pos

\* C37: on every board the game reaches, iter_pieces yields each occupied
\* cell exactly once with the piece stored there, in row-major order, yields
\* nothing for an empty cell, visits 64 cells, and yields the same sequence
\* when run again on the same GameState.
C37_IterPieces ==
    NewBoard
    => /\ Yields(game_state, iter_pieces(game_state))
       /\ iter_pieces(game_state) = PieceIter(game_state)

\* The starting position after a first committed move: 32 pieces, the moved
\* one found on its new square
C37_Witness ==
    /\ Running
    /\ Len(calls) = 1
    /\ Len(iter_pieces(game_state)) = 4 * BOARD_SIZE
    /\ \E i \in 1 .. 4 * BOARD_SIZE : iter_pieces(game_state)[i].pos = calls[1].to_pos
====
